---- MODULE Spec2Model ----
(***************************************************************************)
(* Model of the sx.hamburger accessor library (src/hamburger.hpp):         *)
(* get_fee, get_reserves and get_rewards, read against the tables owned by *)
(* the swap contract (pairs, config) and the mining contract (pools).      *)
(*                                                                         *)
(* The library never writes a table, so the tables and the clock are drawn *)
(* by Init and stay fixed through a behaviour.  Calls are synchronous: a   *)
(* new call starts only when the previous one has returned or aborted.     *)
(*                                                                         *)
(* Three specifications share the variables, one per table that varies:    *)
(*   SpecFee       config varies,  get_fee                                 *)
(*   SpecReserves  pairs varies,   get_reserves                            *)
(*   Spec          pools/clock vary, get_rewards (entry, loop, return)     *)
(***************************************************************************)
EXTENDS Integers, FiniteSets, Sequences, TLC

VARIABLES
    config,     \* singleton "config" of hamburgerswp: NoRow or a global_row
    pairs,      \* table "pairs" of hamburgerswp: a set of pairs_row
    pools,      \* table "pools" of hbgtrademine: a set of pools_row
    now,        \* current_time_point().sec_since_epoch(), a uint32 of TimeBits bits
    pc,         \* position of the call: "idle", "loop", "done", "failed"
    op,         \* the function called last: "none", "get_fee", "get_reserves", "get_rewards"
    args,       \* its arguments [pair_id, from, to, sort]
    eos,        \* get_rewards local: the leg chosen as the EOS leg
    newhbg,     \* get_rewards local
    times,      \* get_rewards local: the loop counter (int64)
    total,      \* get_rewards local: the running pool total (uint64)
    res,        \* get_rewards local: the accumulated reward asset
    iters,      \* number of loop bodies executed by the current get_rewards call
    ret,        \* value returned by the last completed call
    err,        \* message of the failed eosio::check, "" if none
    prev        \* result of the immediately preceding get_rewards call when the
                \* current call is that call with its two legs exchanged

vars == <<config, pairs, pools, now, pc, op, args, eos, newhbg, times, total,
          res, iters, ret, err, prev>>

----------------------------------------------------------------------------
(* Bounds of the model *)

\* width of the uint32 clock in the model: times are taken modulo 2^TimeBits
TimeBits == 2
\* pool weights are 0..MaxWeight
MaxWeight == 1
\* trade amounts reach MaxUnits chunks of 10000
MaxUnits == 2

\* a get_rewards loop is followed for at most MaxIter bodies
MaxIter == MaxUnits + 1

----------------------------------------------------------------------------
(* eosio::symbol and eosio::asset *)

Sym(c, p) == [code |-> c, precision |-> p]
Asset(a, s) == [amount |-> a, symbol |-> s]

EOS4 == Sym("EOS", 4)
USDT4 == Sym("USDT", 4)
TOKA4 == Sym("TOKA", 4)
TOKB4 == Sym("TOKB", 4)
TOKB8 == Sym("TOKB", 8)
HBG6 == Sym("HBG", 6)

NoRow == [none |-> TRUE]
NoArgs == [pair_id |-> 0, from |-> Asset(0, HBG6), to |-> Asset(0, HBG6), sort |-> HBG6]
NoPrev == [valid |-> FALSE, ret |-> Asset(0, HBG6)]

PairIds == {1, 2}

\* C++ integer division truncates toward zero
TruncDiv(a, b) == IF a >= 0 THEN a \div b ELSE -((-a) \div b)

----------------------------------------------------------------------------
(* Tables *)

UInt8 == 0 .. 255

\* struct global_row with its member initialisers
global_row == [contract_status |-> 1, mine_status |-> 1, trade_fee |-> 20, protocol_fee |-> 10]

ConfigStates ==
    {NoRow} \cup [contract_status : {0, 1}, mine_status : {0, 1},
                  trade_fee : UInt8, protocol_fee : UInt8]

\* singleton::get_or_default()
get_or_default == IF config = NoRow THEN global_row ELSE config

\* the columns of pairs_row that the library reads
ReserveAssets == {Asset(a, s) : a \in {100, 200}, s \in {TOKA4, TOKB4, EOS4}}
PairRows == [id : PairIds, reserve0 : ReserveAssets, reserve1 : ReserveAssets]

\* the columns of pools_row that the library reads
Balances == {0, 9999, 10000, 1000000}
PoolRows == [pair_id : PairIds, weight : 0 .. MaxWeight,
             balance : {Asset(b, HBG6) : b \in Balances},
             last_issue_time : 0 .. (2^TimeBits - 1)]

\* multi_index::find on "pairs" and on "pools": the row with that primary key,
\* NoRow for end()
FindPair(tbl, pair_id) ==
    IF \E r \in tbl : r.id = pair_id THEN CHOOSE r \in tbl : r.id = pair_id ELSE NoRow

\* a find that ignores the key
FindAnyPool(tbl, pair_id) ==
    IF tbl = {} THEN NoRow ELSE CHOOSE r \in tbl : TRUE

FindPool(tbl, pair_id) ==
    IF \E r \in tbl : r.pair_id = pair_id
    THEN CHOOSE r \in tbl : r.pair_id = pair_id
    ELSE NoRow

----------------------------------------------------------------------------
(* get_fee *)

\* the sum is computed in int and narrowed to the uint8_t return type
FeeSum(g) == (g.trade_fee + g.protocol_fee) % 256

get_fee ==
    /\ pc \in {"idle", "done", "failed"}
    /\ pc' = "done"
    /\ op' = "get_fee"
    /\ args' = NoArgs
    /\ ret' = FeeSum(get_or_default)
    /\ err' = ""
    /\ UNCHANGED <<config, pairs, pools, now, eos, newhbg, times, total, res, iters, prev>>

InitLocals ==
    /\ pc = "idle"
    /\ op = "none"
    /\ args = NoArgs
    /\ eos = Asset(0, HBG6)
    /\ newhbg = 0
    /\ times = 0
    /\ total = 0
    /\ res = Asset(0, HBG6)
    /\ iters = 0
    /\ ret = 0
    /\ err = ""
    /\ prev = NoPrev

InitFee ==
    /\ config \in ConfigStates
    /\ pairs = {}
    /\ pools = {}
    /\ now = 0
    /\ InitLocals

NextFee == get_fee

SpecFee == InitFee /\ [][NextFee]_vars

----------------------------------------------------------------------------
(* get_reserves *)

SortSymbols == {TOKA4, TOKB4, TOKB8, EOS4}

\* a check that looks at reserve0 only
SortMatchesReserve0(row, sort) == row.reserve0.symbol = sort

\* the condition of the eosio::check on the sort symbol
SortMatches(row, sort) == row.reserve0.symbol = sort \/ row.reserve1.symbol = sort

\* a return that does not reorder
UnorderedReserves(row, sort) == <<row.reserve0, row.reserve1>>

\* the returned pair
OrderedReserves(row, sort) ==
    IF sort = row.reserve0.symbol
    THEN <<row.reserve0, row.reserve1>>
    ELSE <<row.reserve1, row.reserve0>>

get_reserves ==
    \E pair_id \in PairIds, sort \in SortSymbols :
        LET row == FindPair(pairs, pair_id) IN
        /\ pc \in {"idle", "done", "failed"}
        /\ op' = "get_reserves"
        /\ args' = [NoArgs EXCEPT !.pair_id = pair_id, !.sort = sort]
        /\ IF row = NoRow
           THEN /\ pc' = "failed"
                /\ err' = "HamburgerLibrary: INVALID_PAIR_ID"
                /\ ret' = 0
           ELSE IF ~SortMatches(row, sort)
           THEN /\ pc' = "failed"
                /\ err' = "sort symbol does not match"
                /\ ret' = 0
           ELSE /\ pc' = "done"
                /\ err' = ""
                /\ ret' = OrderedReserves(row, sort)
        /\ UNCHANGED <<config, pairs, pools, now, eos, newhbg, times, total, res, iters, prev>>

InitReserves ==
    /\ config = NoRow
    /\ pairs \in {{}} \cup {{r} : r \in PairRows}
                \cup {{r1, r2} : r1 \in {r \in PairRows : r.id = 1},
                                 r2 \in {r \in PairRows : r.id = 2}}
    /\ pools = {}
    /\ now = 0
    /\ InitLocals

NextReserves == get_reserves

SpecReserves == InitReserves /\ [][NextReserves]_vars

----------------------------------------------------------------------------
(* get_rewards *)

\* the trade legs of the model: EOS legs below, at and above whole chunks of
\* 10000 (a negative amount too: asset::amount is an int64), and other legs
EosAmounts == {-10000, 5000} \cup {10000 * k : k \in 0 .. MaxUnits}
Legs == {Asset(a, EOS4) : a \in EosAmounts} \cup {Asset(12345, USDT4), Asset(20000, TOKA4)}

\* symbol_code::to_string() == "EOS"
IsEOS(a) == a.symbol.code = "EOS"

\* a choice that looks at the from leg only
EosLegFromOnly(from, to) == from

\* auto eos = from.symbol.code().to_string() == "EOS" ? from : to;
EosLeg(from, to) == IF IsEOS(from) THEN from ELSE to

\* float newsecs = sec_since_epoch() - last_issue_time: a uint32 subtraction,
\* which wraps when the clock is behind last_issue_time.  The conversion to
\* float is exact for every value below 2^24, so for every value of the model.
NewSecs(t, last_issue_time) == (t - last_issue_time) % (2^TimeBits)

\* uint64_t newhbg = weight * 0.005 * newsecs * 1000000, a double product
\* truncated toward zero.  For the weights 0, 1, 2 and newsecs below 205 the
\* double arithmetic gives exactly weight * 5000 * newsecs; beyond that the
\* binary rounding of 0.005 can lose one unit (weight 3, 11 s gives 164999).
NewHbg(weight, newsecs) == weight * 5000 * newsecs

\* a division that rounds up
MinedRoundUp(t) == (t + 9999) \div 10000

\* auto mined = total/10000;
Mined(t) == t \div 10000

\* a body that does not debit the pool total
LoopBodyNoDebit(t, r) == [total |-> t, amount |-> r + Mined(t)]

\* one body of the while loop: the new total and the new res.amount
LoopBody(t, r) == [total |-> t - Mined(t), amount |-> r + Mined(t)]

\* get_rewards from its entry to the first test of the loop, or to an early
\* return
enter_rewards(pair_id, from, to) ==
    LET e == EosLeg(from, to)
        poolit == FindPool(pools, pair_id)
        secs == NewSecs(now, poolit.last_issue_time)
        hbg == NewHbg(poolit.weight, secs)
    IN
    /\ op' = "get_rewards"
    /\ args' = [NoArgs EXCEPT !.pair_id = pair_id, !.from = from, !.to = to]
    /\ eos' = e
    /\ res' = Asset(0, HBG6)
    /\ iters' = 0
    /\ err' = ""
    /\ IF ~IsEOS(e) \/ poolit = NoRow
       THEN /\ pc' = "done"
            /\ ret' = Asset(0, HBG6)
            /\ newhbg' = 0
            /\ times' = 0
            /\ total' = 0
       ELSE /\ pc' = "loop"
            /\ ret' = 0
            /\ newhbg' = hbg
            /\ times' = TruncDiv(e.amount, 10000)
            /\ total' = poolit.balance.amount + hbg
    /\ UNCHANGED <<config, pairs, pools, now>>

\* a caller calls get_rewards
get_rewards ==
    \E pair_id \in PairIds, from \in Legs, to \in Legs :
        /\ pc = "idle"
        /\ prev' = NoPrev
        /\ enter_rewards(pair_id, from, to)

\* after a call has returned, the caller repeats it with the two legs
\* exchanged, against the same tables and clock.  (The library keeps no state
\* between calls, so other sequences of calls show nothing more than the
\* single calls do.)
get_rewards_swapped ==
    /\ pc = "done"
    /\ op = "get_rewards"
    /\ prev' = [valid |-> TRUE, ret |-> ret]
    /\ enter_rewards(args.pair_id, args.to, args.from)

\* while(times--) with a true test: one body
loop_iter ==
    /\ pc = "loop"
    /\ times # 0
    /\ iters < MaxIter
    /\ times' = times - 1
    /\ total' = LoopBody(total, res.amount).total
    /\ res' = [res EXCEPT !.amount = LoopBody(total, res.amount).amount]
    /\ iters' = iters + 1
    /\ UNCHANGED <<config, pairs, pools, now, pc, op, args, eos, newhbg, ret, err, prev>>

\* while(times--) with a false test, and return res
loop_exit ==
    /\ pc = "loop"
    /\ times = 0
    /\ times' = times - 1
    /\ pc' = "done"
    /\ ret' = res
    /\ UNCHANGED <<config, pairs, pools, now, op, args, eos, newhbg, total, res, iters, err, prev>>

Init ==
    /\ config = NoRow
    /\ pairs = {}
    /\ pools \in {{}} \cup {{r} : r \in PoolRows}
    /\ now \in 0 .. (2^TimeBits - 1)
    /\ InitLocals

Next == get_rewards \/ get_rewards_swapped \/ loop_iter \/ loop_exit

Spec == Init /\ [][Next]_vars

----------------------------------------------------------------------------
(* Properties *)

HasPool(pair_id) == \E r \in pools : r.pair_id = pair_id
PoolOf(pair_id) == CHOOSE r \in pools : r.pair_id = pair_id

\* the call is a get_rewards call for which a leg is EOS and the pool exists
Eligible ==
    /\ op = "get_rewards"
    /\ IsEOS(args.from) \/ IsEOS(args.to)
    /\ HasPool(args.pair_id)

\* the sequential decay recurrence: n times, take floor(t / 10000) out of t
RECURSIVE Decay(_, _)
Decay(t, n) ==
    IF n <= 0 THEN 0
    ELSE LET mined == t \div 10000 IN mined + Decay(t - mined, n - 1)

\* C1: for an eligible trade, the value get_rewards returns is the amount of
\* the decay recurrence run floor(EOS-leg amount / 10000) times from
\* running_total = stored balance + newly emitted units, in HBG.
C1_RewardIsDecayRecurrence ==
    (Eligible /\ pc = "done") =>
        ret = Asset(Decay(PoolOf(args.pair_id).balance.amount + newhbg,
                          eos.amount \div 10000), HBG6)

\* two units out of a total of 1,000,000 give 100 + 99 = 199
C1_Witness ==
    /\ Eligible /\ pc = "done"
    /\ PoolOf(args.pair_id).balance.amount = 1000000
    /\ newhbg = 0
    /\ eos.amount = 20000
    /\ ret.amount = 199

\* C2: when the current time is earlier than the pool's last_issue_time, the
\* newly emitted amount is 0 and the pool total used for allocation is the
\* stored balance.
C2_ClockSkewEmitsNothing ==
    (Eligible /\ pc = "loop" /\ iters = 0
        /\ now < PoolOf(args.pair_id).last_issue_time) =>
        (newhbg = 0 /\ total = PoolOf(args.pair_id).balance.amount)

\* C3: get_rewards always returns: whatever the amounts, its loop has a
\* non-negative number of bodies left and runs no more than
\* floor(EOS-leg amount / 10000) bodies.
C3_LoopBoundedByUnits ==
    (op = "get_rewards" /\ pc = "loop") =>
        /\ times >= 0
        /\ iters <= (IF eos.amount >= 0 THEN eos.amount \div 10000 ELSE 0)

\* C4: for an EOS-leg amount below 10,000 the loop runs no body (units = 0)
\* and the reward is 0 HBG, whatever the pool's weight, balance and
\* last_issue_time.
C4_SmallTradeNoReward ==
    (Eligible /\ IsEOS(eos) /\ eos.amount < 10000) =>
        /\ iters = 0
        /\ res = Asset(0, HBG6)
        /\ pc = "done" => ret = Asset(0, HBG6)

\* C5 as stated: get_rewards(pair_id, a, b) = get_rewards(pair_id, b, a) for
\* every two assets a and b, same tables and clock.
C5_LegOrderIrrelevant ==
    (op = "get_rewards" /\ pc = "done" /\ prev.valid) => ret = prev.ret

\* C5 amended: get_rewards(pair_id, a, b) = get_rewards(pair_id, b, a) unless
\* both legs have currency code EOS and differ in their number of whole
\* 10000-unit chunks (the from leg is then the one used).
C5_LegOrderIrrelevantUnlessBothEOS ==
    (/\ op = "get_rewards" /\ pc = "done" /\ prev.valid
     /\ ~(/\ IsEOS(args.from) /\ IsEOS(args.to)
          /\ TruncDiv(args.from.amount, 10000) # TruncDiv(args.to.amount, 10000)))
        => ret = prev.ret

\* both orders of (20000 EOS, 12345 USDT) were paid the same two units
C5_Witness ==
    /\ op = "get_rewards" /\ pc = "done" /\ prev.valid
    /\ IsEOS(args.to) /\ ~IsEOS(args.from)
    /\ args.to.amount = 20000
    /\ ret.amount = 199
    /\ prev.ret.amount = 199

\* C6: get_fee returns trade_fee + protocol_fee of the stored config, and
\* 20 + 10 = 30 when the singleton has never been set.
C6_FeeIsSum ==
    (op = "get_fee" /\ pc = "done") =>
        ret = (IF config = NoRow THEN 30 ELSE config.trade_fee + config.protocol_fee)

\* C7: get_reserves fails with INVALID_PAIR_ID (NotFound) exactly when no pairs
\* row has the id, fails with "sort symbol does not match" (SymbolMismatch)
\* exactly when the row exists and neither reserve carries the sort symbol,
\* and succeeds in every other case.
C7_ReservesFailsExactlyTwice ==
    (op = "get_reserves") =>
        LET found == \E r \in pairs : r.id = args.pair_id
            carried == \E r \in pairs :
                          /\ r.id = args.pair_id
                          /\ args.sort \in {r.reserve0.symbol, r.reserve1.symbol}
        IN
        /\ pc \in {"done", "failed"}
        /\ (pc = "failed" /\ err = "HamburgerLibrary: INVALID_PAIR_ID") <=> ~found
        /\ (pc = "failed" /\ err = "sort symbol does not match") <=> (found /\ ~carried)
        /\ (pc = "done" /\ err = "") <=> carried

\* the three outcomes: a success on reserve1's symbol, and a failure on a
\* symbol whose code matches and whose precision does not
C7_Witness ==
    /\ op = "get_reserves"
    /\ pc = "failed"
    /\ err = "sort symbol does not match"
    /\ args.sort = TOKB8
    /\ \E r \in pairs : r.id = args.pair_id /\ r.reserve1.symbol = TOKB4

\* C8: when get_reserves succeeds, the returned pair is (reserve0, reserve1)
\* of the row or its exchange, and its first element carries the sort symbol.
C8_ReservesSortedFirst ==
    (op = "get_reserves" /\ pc = "done") =>
        \E r \in pairs :
            /\ r.id = args.pair_id
            /\ ret[1].symbol = args.sort
            /\ ret \in {<<r.reserve0, r.reserve1>>, <<r.reserve1, r.reserve0>>}

\* reserve0 = 100 TOKA, reserve1 = 200 TOKB, sort = TOKB: (200 TOKB, 100 TOKA)
C8_Witness ==
    /\ op = "get_reserves" /\ pc = "done"
    /\ args.sort = TOKB4
    /\ \E r \in pairs :
          /\ r.id = args.pair_id
          /\ r.reserve0 = Asset(100, TOKA4)
          /\ r.reserve1 = Asset(200, TOKB4)
    /\ ret = <<Asset(200, TOKB4), Asset(100, TOKA4)>>

C10_Conserved ==
    (Eligible /\ pc \in {"loop", "done"}) =>
        LET initial == PoolOf(args.pair_id).balance.amount + newhbg IN
        /\ res.amount + total = initial
        /\ total >= 0
        /\ res.amount >= 0
        /\ res.amount <= initial

\* C10: conservation in the allocation loop: after every body, reward +
\* running_total = initial pool total with running_total >= 0, so the reward
\* is within 0 .. initial total; and each further unit never lowers the reward.
C10_ConservationInLoop ==
    /\ []C10_Conserved
    /\ [][(pc = "loop" /\ iters' = iters + 1) => res'.amount >= res.amount]_vars

\* two bodies have run on a total of 1,000,000: 199 out, 999,801 left
C10_Witness ==
    /\ Eligible /\ pc = "loop"
    /\ iters = 2
    /\ res.amount = 199
    /\ total = 999801

====
